---- MODULE Spec2Model ----
(***************************************************************************)
(* The spelling corrector of SpellingCorrector.ipynb.                      *)
(*                                                                         *)
(* The notebook defines two correctors.  The first (cells 4-6, "baseline") *)
(* ranks the known single-edit variants of a word by the unigram language  *)
(* model.  The second (cell 10, "noise channel") re-defines known, edits,  *)
(* candidates and correction: every edit carries the probability of the    *)
(* typing error that would have produced it, read from four confusion      *)
(* matrices.  The second set of definitions carries the suffix NC here,    *)
(* because a module cannot define a name twice.                            *)
(*                                                                         *)
(* A word is a sequence of one-character strings.  A Python float that is  *)
(* the quotient of two integers is the reduced fraction <<n, d>>.  A call  *)
(* that raises is a result record whose field raised names the exception.  *)
(***************************************************************************)
EXTENDS Integers, Sequences, FiniteSets, TLC

VARIABLES wordcount, numberOfWords,
          addmatrix, submatrix, revmatrix, delmatrix,
          word, strategy, result

vars == <<wordcount, numberOfWords, addmatrix, submatrix, revmatrix, delmatrix,
          word, strategy, result>>

tables == <<wordcount, numberOfWords, addmatrix, submatrix, revmatrix, delmatrix>>

(***************************************************************************)
(* Bounds of the model.                                                    *)
(***************************************************************************)
\* number of tokens of the corpus (so numberOfWords <= MaxCorpus)
MaxCorpus == 3
\* the alphabet is cut to its first NumLetters letters
NumLetters == 6

(***************************************************************************)
(* Generic helpers: Python values.                                         *)
(***************************************************************************)
Range(s) == {s[i] : i \in DOMAIN s}

RECURSIVE GCD(_, _)
GCD(a, b) == IF b = 0 THEN a ELSE GCD(b, a % b)

\* n / d for integers n >= 0, d > 0, as a float: the reduced fraction
Div(n, d) == LET g == GCD(n, d) IN <<n \div g, d \div g>>

\* p * q for two floats
Mul(p, q) == Div(p[1] * q[1], p[2] * q[2])

\* p < q for two floats
Less(p, q) == p[1] * q[2] < q[1] * p[2]

\* a call that returned v / a call that raised e
Return(v) == [raised |-> "none", value |-> v]
Raise(e)  == [raised |-> e, value |-> <<>>]

\* max(xs, key = f) over a set xs: the first maximal element in the set's
\* iteration order, which the hash seed of the process decides; every
\* maximal element is a possible outcome.  key[x] is the float f(x).
max(xs, key) == {x \in xs : \A y \in xs : ~Less(key[x], key[y])}

(***************************************************************************)
(* The alphabet.                                                           *)
(***************************************************************************)
\* The 26 letters, listed so that the prefix the model keeps holds the
\* letters of the notebook's worked example (acress, actress, cress).  The
\* order of the letters only decides which item of a list is built first.
Alphabet == <<"a", "c", "e", "r", "s", "t", "b", "d", "f", "g", "h", "i", "j",
              "k", "l", "m", "n", "o", "p", "q", "u", "v", "w", "x", "y", "z">>

letters == SubSeq(Alphabet, 1, NumLetters)

Idx(c) == CHOOSE i \in DOMAIN letters : letters[i] = c

\* the 2-character keys of a confusion matrix
Keys == Range(letters) \X Range(letters)

\* sum(d.values()) for a dict d of counts (integers >= 0): a count n adds
\* the n pairs <<key, 1>> .. <<key, n>> to the set that is counted
Sum(d) == Cardinality(UNION {{k} \X (1..d[k]) : k \in DOMAIN d})

(***************************************************************************)
(* Language model (cell 4).                                                *)
(***************************************************************************)
\* Counter(match_pattern): the count of every token of the corpus
Counter(corpus) ==
    [t \in Range(corpus) |-> Cardinality({i \in DOMAIN corpus : corpus[i] = t})]

\* wordcount[w] of a Counter: 0 for a missing key
Count(w) == IF w \in DOMAIN wordcount THEN wordcount[w] ELSE 0

\* languageModel(word): raises ZeroDivisionError on an empty corpus
languageModel(w) == Div(Count(w), numberOfWords)

(***************************************************************************)
(* Candidates of the baseline corrector (cell 6).                          *)
(***************************************************************************)
known(words) == {w \in words : w \in DOMAIN wordcount}

\* splits[i + 1] is the pair (word[:i], word[i:])
splits(w) ==
    [j \in 1..(Len(w) + 1) |-> <<SubSeq(w, 1, j - 1), SubSeq(w, j, Len(w))>>]

\* R[1:] and R[2:]
Rest(R, n) == SubSeq(R, n + 1, Len(R))

transposes(w) ==
    LET LongR(s) == Len(s[2]) > 1
        ss == SelectSeq(splits(w), LongR)
    IN  [j \in DOMAIN ss |->
            ss[j][1] \o <<ss[j][2][2]>> \o <<ss[j][2][1]>> \o Rest(ss[j][2], 2)]

\* a deletes that skips the split with the empty left part
deletes_SkipStart(w) ==
    LET HasRL(s) == s[2] # <<>> /\ s[1] # <<>>
        ss == SelectSeq(splits(w), HasRL)
    IN  [j \in DOMAIN ss |-> ss[j][1] \o Rest(ss[j][2], 1)]

deletes(w) ==
    LET HasR(s) == s[2] # <<>>
        ss == SelectSeq(splits(w), HasR)
    IN  [j \in DOMAIN ss |-> ss[j][1] \o Rest(ss[j][2], 1)]

substitutions(w) ==
    LET HasR(s) == s[2] # <<>>
        ss == SelectSeq(splits(w), HasR)
        n  == Len(letters)
    IN  [j \in 1..(Len(ss) * n) |->
            LET s == ss[((j - 1) \div n) + 1]
                c == letters[((j - 1) % n) + 1]
            IN  s[1] \o <<c>> \o Rest(s[2], 1)]

\* an inserts that skips the split with the empty left part
inserts_SkipStart(w) ==
    LET HasL(s) == s[1] # <<>>
        ss == SelectSeq(splits(w), HasL)
        n  == Len(letters)
    IN  [j \in 1..(Len(ss) * n) |->
            LET s == ss[((j - 1) \div n) + 1]
                c == letters[((j - 1) % n) + 1]
            IN  s[1] \o <<c>> \o s[2]]

inserts(w) ==
    LET ss == splits(w)
        n  == Len(letters)
    IN  [j \in 1..(Len(ss) * n) |->
            LET s == ss[((j - 1) \div n) + 1]
                c == letters[((j - 1) % n) + 1]
            IN  s[1] \o <<c>> \o s[2]]

edits(w) == Range(transposes(w) \o deletes(w) \o substitutions(w) \o inserts(w))

\* known([word]) or known(edits(word)) or [word]
candidates(w) ==
    LET kw == known({w})
        ke == known(edits(w))
    IN  IF kw # {} THEN kw ELSE IF ke # {} THEN ke ELSE {w}

\* correction(word) of cell 8: the set of its possible outcomes
correction(w) ==
    IF numberOfWords = 0 THEN {Raise("ZeroDivisionError")}
    ELSE LET cs == candidates(w)
         IN  {Return(c) : c \in max(cs, [x \in cs |-> languageModel(x)])}

(***************************************************************************)
(* The noise channel corrector (cell 10).                                  *)
(***************************************************************************)
P(w) == Div(Count(w), numberOfWords)

\* the list [(s, matrix[key] / sum(matrix.values())) for (s, key) in items]:
\* a missing key raises KeyError, a zero sum raises ZeroDivisionError, and the
\* first item that raises decides which
Scored(items, matrix) ==
    LET total == Sum(matrix)
    IN  IF items = <<>> THEN Return(<<>>)
        ELSE IF items[1][2] \notin DOMAIN matrix THEN Raise("KeyError")
        ELSE IF total = 0 THEN Raise("ZeroDivisionError")
        ELSE IF \E j \in DOMAIN items : items[j][2] \notin DOMAIN matrix
             THEN Raise("KeyError")
        ELSE Return([j \in DOMAIN items |->
                        <<items[j][1], Div(matrix[items[j][2]], total)>>])

\* a transposesNC that looks up the two characters in their original order
transposesNC_OriginalOrder(w) ==
    LET LongR(s) == Len(s[2]) > 1
        ss == SelectSeq(splits(w), LongR)
    IN  Scored([j \in DOMAIN ss |->
                   <<ss[j][1] \o <<ss[j][2][2]>> \o <<ss[j][2][1]>> \o Rest(ss[j][2], 2),
                     <<ss[j][2][1], ss[j][2][2]>> >>],
               revmatrix)

transposesNC(w) ==
    LET LongR(s) == Len(s[2]) > 1
        ss == SelectSeq(splits(w), LongR)
    IN  Scored([j \in DOMAIN ss |->
                   <<ss[j][1] \o <<ss[j][2][2]>> \o <<ss[j][2][1]>> \o Rest(ss[j][2], 2),
                     <<ss[j][2][2], ss[j][2][1]>> >>],
               revmatrix)

\* a deletesNC that also deletes the first character, its context being the
\* character itself
deletesNC_FromStart(w) ==
    LET HasR(s) == s[2] # <<>>
        ss == SelectSeq(splits(w), HasR)
    IN  Scored([j \in DOMAIN ss |->
                   <<ss[j][1] \o Rest(ss[j][2], 1),
                     <<IF ss[j][1] = <<>> THEN ss[j][2][1] ELSE ss[j][1][Len(ss[j][1])],
                       ss[j][2][1]>> >>],
               addmatrix)

deletesNC(w) ==
    LET HasRL(s) == s[2] # <<>> /\ s[1] # <<>>
        ss == SelectSeq(splits(w), HasRL)
    IN  Scored([j \in DOMAIN ss |->
                   <<ss[j][1] \o Rest(ss[j][2], 1),
                     <<ss[j][1][Len(ss[j][1])], ss[j][2][1]>> >>],
               addmatrix)

substitutionsNC(w) ==
    LET HasR(s) == s[2] # <<>>
        ss == SelectSeq(splits(w), HasR)
        n  == Len(letters)
    IN  Scored([j \in 1..(Len(ss) * n) |->
                   LET s == ss[((j - 1) \div n) + 1]
                       c == letters[((j - 1) % n) + 1]
                   IN  <<s[1] \o <<c>> \o Rest(s[2], 1), <<c, s[2][1]>> >>],
               submatrix)

insertsNC(w) ==
    LET HasL(s) == s[1] # <<>>
        ss == SelectSeq(splits(w), HasL)
        n  == Len(letters)
    IN  Scored([j \in 1..(Len(ss) * n) |->
                   LET s == ss[((j - 1) \div n) + 1]
                       c == letters[((j - 1) % n) + 1]
                   IN  <<s[1] \o <<c>> \o s[2], <<s[1][Len(s[1])], c>> >>],
               delmatrix)

\* the set of (string, probability) pairs, or the first exception raised
editsNC(w) ==
    LET t == transposesNC(w)
        d == deletesNC(w)
        s == substitutionsNC(w)
        i == insertsNC(w)
    IN  IF t.raised # "none" THEN t
        ELSE IF d.raised # "none" THEN d
        ELSE IF s.raised # "none" THEN s
        ELSE IF i.raised # "none" THEN i
        ELSE Return(Range(t.value \o d.value \o s.value \o i.value))

knownNC(words) == {c \in words : c[1] \in DOMAIN wordcount}

candidatesNC(w) ==
    LET e == editsNC(w)
    IN  IF e.raised # "none" THEN e ELSE Return(knownNC(e.value))

noiseChannelModel(c) == Mul(c[2], P(c[1]))

\* a correction that forgets to look the word up before it ranks the edits
correctionNC_NoKnownCheck(w) ==
    LET cand == candidatesNC(w)
    IN  IF cand.raised # "none" THEN {Raise(cand.raised)}
        ELSE IF cand.value # {}
             THEN {Return(c[1]) : c \in max(cand.value, [x \in cand.value |-> noiseChannelModel(x)])}
        ELSE {Return(w)}

\* correction(word) of cell 10: the set of its possible outcomes
correctionNC(w) ==
    LET cand == candidatesNC(w)
    IN  IF cand.raised # "none" THEN {Raise(cand.raised)}
        ELSE IF w \in DOMAIN wordcount THEN {Return(w)}
        ELSE IF cand.value # {}
             THEN {Return(c[1]) : c \in max(cand.value, [x \in cand.value |-> noiseChannelModel(x)])}
        ELSE {Return(w)}

(***************************************************************************)
(* Inputs: the words corrected, the corpus, the confusion matrices.        *)
(***************************************************************************)
acress  == <<"a", "c", "r", "e", "s", "s">>
actress == <<"a", "c", "t", "r", "e", "s", "s">>
cress   == <<"c", "r", "e", "s", "s">>

\* the short words: every word of at most two letters over the first two
\* letters of the alphabet, the empty word included
InputLetters == {letters[1], letters[2]}
ShortWords == UNION {[1..n -> InputLetters] : n \in 0..2}

\* the words handed to correction
Words == ShortWords \cup {acress}

\* the corpus (re.findall yields no empty token): up to MaxCorpus short
\* tokens, or up to MaxCorpus occurrences of actress and cress
Corpora ==
    UNION {[1..n -> ShortWords \ {<<>>}] \cup [1..n -> {actress, cress}] : n \in 0..MaxCorpus}

\* confusion matrices: every pair seen once; counts that differ from pair to
\* pair (and between xy and yx); no doubled letter; nothing observed; no data
Uniform == [k \in Keys |-> 1]
Skewed(off) == [k \in Keys |-> (2 * Idx(k[1]) + Idx(k[2]) + off) % 5]
Sparse == [k \in {q \in Keys : q[1] # q[2]} |-> 1]
Zeros == [k \in Keys |-> 0]
Empty == [k \in {} |-> 0]

EditTypes == {"add", "sub", "rev", "del"}

ConfusionData ==
    LET uniform == [add |-> Uniform, sub |-> Uniform, rev |-> Uniform, del |-> Uniform]
        skewed  == [add |-> Skewed(0), sub |-> Skewed(1), rev |-> Skewed(2), del |-> Skewed(3)]
    IN  {uniform, skewed, [skewed EXCEPT !.add = Zeros], [skewed EXCEPT !.rev = Empty]}
           \cup {[skewed EXCEPT ![t] = Sparse] : t \in EditTypes}

(***************************************************************************)
(* The program: the tables are built once, then words are corrected.       *)
(***************************************************************************)
Init ==
    /\ \E corpus \in Corpora :
          /\ wordcount = Counter(corpus)
          /\ numberOfWords = Len(corpus)
    /\ \E m \in ConfusionData :
          /\ addmatrix = m.add
          /\ submatrix = m.sub
          /\ revmatrix = m.rev
          /\ delmatrix = m.del
    /\ word = <<>>
    /\ strategy = "none"
    /\ result = Return(<<>>)

\* A call of the baseline correction.  The calls of one behaviour read the same
\* files; they need not belong to the same run of the notebook, so two calls
\* may enumerate the same set in different orders.
Correction(w) ==
    /\ word' = w
    /\ strategy' = "baseline"
    /\ result' \in correction(w)
    /\ UNCHANGED tables

\* a call of the noise channel correction
CorrectionNC(w) ==
    /\ word' = w
    /\ strategy' = "noise"
    /\ result' \in correctionNC(w)
    /\ UNCHANGED tables

Next ==
    \/ \E w \in Words : Correction(w)
    \/ \E w \in Words : CorrectionNC(w)

Spec == Init /\ [][Next]_vars

(***************************************************************************)
(* What the claims speak of: the single edits of a word, position by       *)
(* position, and the score of a derivation.                                *)
(***************************************************************************)
Called == strategy # "none"
Returned == Called /\ result.raised = "none"
Vocabulary == DOMAIN wordcount

\* w with the characters at positions i and i + 1 swapped
SwapAt(w, i) ==
    [k \in 1..Len(w) |-> IF k = i THEN w[i + 1] ELSE IF k = i + 1 THEN w[i] ELSE w[k]]

\* w without the character at position i
DeleteAt(w, i) == [k \in 1..(Len(w) - 1) |-> IF k < i THEN w[k] ELSE w[k + 1]]

\* w with the character at position i replaced by c
ReplaceAt(w, i, c) == [k \in 1..Len(w) |-> IF k = i THEN c ELSE w[k]]

\* w with c inserted so that it stands at position i
InsertAt(w, i, c) ==
    [k \in 1..(Len(w) + 1) |-> IF k < i THEN w[k] ELSE IF k = i THEN c ELSE w[k - 1]]

\* every string one transposition, deletion, substitution or insertion away
OneEdits(w) ==
    {SwapAt(w, i) : i \in 1..(Len(w) - 1)}
       \cup {DeleteAt(w, i) : i \in 1..Len(w)}
       \cup {ReplaceAt(w, i, c) : i \in 1..Len(w), c \in Range(letters)}
       \cup {InsertAt(w, i, c) : i \in 1..(Len(w) + 1), c \in Range(letters)}

\* the derivations of the noise channel: token, edit type and 2-character key
Derivations(w) ==
    {[token |-> SwapAt(w, i), type |-> "rev", key |-> <<w[i + 1], w[i]>>] :
        i \in 1..(Len(w) - 1)}
       \cup {[token |-> DeleteAt(w, i), type |-> "add", key |-> <<w[i - 1], w[i]>>] :
                i \in 2..Len(w)}
       \cup {[token |-> ReplaceAt(w, i, c), type |-> "sub", key |-> <<c, w[i]>>] :
                i \in 1..Len(w), c \in Range(letters)}
       \cup {[token |-> InsertAt(w, i, c), type |-> "del", key |-> <<w[i - 1], c>>] :
                i \in 2..(Len(w) + 1), c \in Range(letters)}

KnownDerivations(w) == {d \in Derivations(w) : d.token \in Vocabulary}

Matrix(type) ==
    CASE type = "add" -> addmatrix
      [] type = "sub" -> submatrix
      [] type = "rev" -> revmatrix
      [] type = "del" -> delmatrix

\* the confusion probability the specification asks for: 0 for a key the
\* table lacks and for a table whose total is 0
ConfusionProbability(type, key) ==
    IF key \notin DOMAIN Matrix(type) \/ Sum(Matrix(type)) = 0 THEN <<0, 1>>
    ELSE Div(Matrix(type)[key], Sum(Matrix(type)))

Score(d) == Mul(P(d.token), ConfusionProbability(d.type, d.key))

(***************************************************************************)
(* The claims.                                                             *)
(***************************************************************************)

\* C1: a word with a nonzero count in the vocabulary is returned unchanged by
\* both strategies, whatever the confusion tables contain.
C1_KnownWordReturned ==
    (Called /\ word \in Vocabulary) => result = Return(word)

\* C2: a word that is not in the vocabulary and none of whose single-edit
\* variants is in the vocabulary is returned unchanged by both strategies, as
\* a normal result and not as an error.
C2_UncorrectableReturned ==
    (Called /\ word \notin Vocabulary /\ OneEdits(word) \cap Vocabulary = {})
        => result = Return(word)

\* C3: under the baseline strategy, for an unknown word with at least one
\* known single-edit variant, the candidate set is exactly the vocabulary
\* tokens one transposition, deletion, substitution or insertion away, and
\* the token returned is a candidate that no other candidate exceeds in
\* corpus count; with vocabulary {actress, cress} and input acress both
\* tokens are candidates and the more frequent one is returned.
C3_BaselineArgMax ==
    (/\ strategy = "baseline"
     /\ word \notin Vocabulary
     /\ OneEdits(word) \cap Vocabulary # {})
        => LET cs == candidates(word)
           IN  /\ cs = OneEdits(word) \cap Vocabulary
               /\ result.raised = "none"
               /\ result.value \in cs
               /\ \A c \in cs : wordcount[result.value] >= wordcount[c]
               /\ (word = acress /\ Vocabulary = {actress, cress})
                     => /\ cs = {actress, cress}
                        /\ wordcount[actress] > wordcount[cress] => result.value = actress
                        /\ wordcount[cress] > wordcount[actress] => result.value = cress

C3_Witness ==
    /\ strategy = "baseline"
    /\ word = acress
    /\ Vocabulary = {actress, cress}
    /\ wordcount[cress] > wordcount[actress]
    /\ result = Return(cress)

\* C4: under the noise channel strategy, for an unknown word with at least
\* one known single-edit variant, the token returned is the token of a known
\* derivation whose score probability(token) * confusion probability(type,
\* key) no other known derivation of the word exceeds.
C4_NoiseArgMax ==
    (/\ strategy = "noise"
     /\ word \notin Vocabulary
     /\ KnownDerivations(word) # {})
        => LET ds == KnownDerivations(word)
           IN  /\ result.raised = "none"
               /\ \E d \in ds :
                     /\ d.token = result.value
                     /\ \A e \in ds : ~Less(Score(d), Score(e))

\* C5: a key that a confusion table lacks, or a table whose total is 0, gives
\* probability 0 and no error, so the noise channel correction returns a
\* token for every word.
C5_NoErrorOnMissingData ==
    strategy = "noise" => result.raised = "none"

\* C6: for fixed tables the correction is a function of the word and the
\* strategy: calling it again returns the same token, ties included.
C6_Deterministic ==
    [][(Called /\ word' = word /\ strategy' = strategy) => result' = result]_vars

\* C7 (as claimed): under either strategy every deletion candidate and every
\* insertion candidate comes from a split whose left part is non-empty: the
\* j-th deletion drops position j + 1, the insertions start after position 1.
C7_NoEditAtWordStart ==
    /\ (strategy = "baseline" /\ result.raised = "none") =>
          LET ds == deletes(word)
              is == inserts(word)
              late == {InsertAt(word, i, c) : i \in 2..(Len(word) + 1), c \in Range(letters)}
          IN  /\ \A j \in DOMAIN ds : ds[j] = DeleteAt(word, j + 1)
              /\ \A j \in DOMAIN is : is[j] \in late
    /\ (strategy = "noise" /\ result.raised = "none") =>
          LET ds == deletesNC(word).value
              is == insertsNC(word).value
              late == {InsertAt(word, i, c) : i \in 2..(Len(word) + 1), c \in Range(letters)}
          IN  /\ \A j \in DOMAIN ds : ds[j][1] = DeleteAt(word, j + 1)
              /\ \A j \in DOMAIN is : is[j][1] \in late

\* C7 (amended): the noise channel generates one deletion per split with a
\* non-empty left part and right part and one insertion per letter and split
\* with a non-empty left part, and none at the start of the word; the
\* baseline also deletes the first character and inserts every letter before
\* the first character.
C7_NoEditAtWordStartNC ==
    /\ (strategy = "noise" /\ editsNC(word).raised = "none") =>
          LET ds == deletesNC(word).value
              is == insertsNC(word).value
              n  == Len(letters)
          IN  /\ Len(ds) = (IF word = <<>> THEN 0 ELSE Len(word) - 1)
              /\ \A j \in DOMAIN ds : ds[j][1] = DeleteAt(word, j + 1)
              /\ Len(is) = Len(word) * n
              /\ \A j \in DOMAIN is :
                    is[j][1] = InsertAt(word, ((j - 1) \div n) + 2, letters[((j - 1) % n) + 1])
    /\ strategy = "baseline" =>
          LET ds == deletes(word)
              is == Range(inserts(word))
          IN  /\ word # <<>> => ds[1] = DeleteAt(word, 1)
              /\ \A c \in Range(letters) : InsertAt(word, 1, c) \in is

C7_Witness ==
    /\ strategy = "noise"
    /\ Len(word) >= 2
    /\ word[1] # word[2]
    /\ editsNC(word).raised = "none"
    /\ result.raised = "none"

\* C8 (as claimed): for the empty word the edit generation of either strategy
\* yields exactly the one-letter strings, one per letter of the alphabet.
C8_EmptyWordInserts ==
    (Called /\ word = <<>>) =>
        /\ strategy = "baseline" => edits(word) = {<<c>> : c \in Range(letters)}
        /\ strategy = "noise" =>
              /\ editsNC(word).raised = "none"
              /\ {e[1] : e \in editsNC(word).value} = {<<c>> : c \in Range(letters)}

\* C8 (amended): for the empty word the baseline generation yields exactly
\* the one-letter strings, one per letter, and no transposition, deletion or
\* substitution; the noise channel generation yields no candidate at all and
\* raises nothing, so the empty word is returned.
C8_EmptyWordInsertsBaseline ==
    (Called /\ word = <<>>) =>
        /\ strategy = "baseline" =>
              /\ edits(word) = {<<c>> : c \in Range(letters)}
              /\ Len(inserts(word)) = Len(letters)
              /\ transposes(word) = <<>>
              /\ deletes(word) = <<>>
              /\ substitutions(word) = <<>>
        /\ strategy = "noise" =>
              /\ editsNC(word) = Return({})
              /\ result = Return(word)

C8_Witness ==
    /\ strategy = "noise"
    /\ word = <<>>
    /\ result = Return(<<>>)
    /\ \E c \in Range(letters) : <<c>> \in Vocabulary

\* C9 (as claimed): the transposition at a split whose right part has two
\* characters or more is scored with the transposition count of the two
\* characters in their order in the input word, divided by the table's total.
C9_TransposeKeyOriginalOrder ==
    (strategy = "noise" /\ result.raised = "none") =>
        LET ts == transposesNC(word).value
            total == Sum(revmatrix)
        IN  \A i \in 1..(Len(word) - 1) :
                <<word[i], word[i + 1]>> \in DOMAIN revmatrix =>
                    ts[i] = <<SwapAt(word, i),
                              Div(revmatrix[<<word[i], word[i + 1]>>], total)>>

\* C9 (amended): the transposition is scored with the transposition count of
\* the two characters in swapped order, the order they have in the candidate
\* (right[1] followed by right[0]), divided by the table's total.
C9_TransposeKeySwappedOrder ==
    (strategy = "noise" /\ transposesNC(word).raised = "none") =>
        LET ts == transposesNC(word).value
            total == Sum(revmatrix)
        IN  /\ Len(ts) = (IF word = <<>> THEN 0 ELSE Len(word) - 1)
            /\ \A i \in 1..(Len(word) - 1) :
                  ts[i] = <<SwapAt(word, i),
                            Div(revmatrix[<<word[i + 1], word[i]>>], total)>>

C9_Witness ==
    /\ strategy = "noise"
    /\ result.raised = "none"
    /\ Len(word) = 2
    /\ <<word[1], word[2]>> \in DOMAIN revmatrix
    /\ <<word[2], word[1]>> \in DOMAIN revmatrix
    /\ revmatrix[<<word[1], word[2]>>] # revmatrix[<<word[2], word[1]>>]
    /\ result.value = SwapAt(word, 1)

\* C10: under both strategies the token returned is the input word or a
\* vocabulary token one edit away from it, and it differs from the input
\* only when the input is not in the vocabulary.
C10_ResultIsWordOrKnownEdit ==
    Returned =>
        /\ \/ result.value = word
           \/ result.value \in OneEdits(word) \cap Vocabulary
        /\ result.value # word => word \notin Vocabulary

C10_Witness ==
    /\ strategy = "noise"
    /\ result.raised = "none"
    /\ result.value # word
    /\ \E t \in Vocabulary \ {result.value} : t \in OneEdits(word)

====
